---- MODULE Spec2Model ----
(***************************************************************************)
(* The versioning core of ghost-editor: lines with append-only version     *)
(* histories, blocks with a timestamp cursor, the timeline / apply-index   *)
(* engine and the edit engine, as implemented by BlockProxy                *)
(* (backend/vcs/db/proxies/vcs-proxies/block-proxy.ts) and by the          *)
(* in-memory Block (backend/vcs/core/block.ts).                            *)
(*                                                                         *)
(* The store is modelled as a record st = [order, versions, blocks, cache, *)
(* clock]; every query of the code is an operator over such a record and   *)
(* every mutation an operator that returns the next record, so composite   *)
(* handlers (changeLines calling insertLinesAt) compose as in the code.    *)
(***************************************************************************)
EXTENDS Integers, Sequences, FiniteSets, TLC

VARIABLES
    order,      \* line ids of the file, ascending by the `order` key
    versions,   \* versions[l]: the versions of line l, in insertion order
    blocks,     \* blocks[b]: the persisted Block rows, by autoincrement id
    cache,      \* cache[b]: BlockProxy._timestamp of the proxy of block b
    clock,      \* TimestampProvider: the last timestamp handed out
    tags,       \* the tags created so far
    pending,    \* the change_lines calls whose awaits interleave, in the order they began
    last        \* history variable: the last operation, its arguments and its result

vars == <<order, versions, blocks, cache, clock, tags, pending, last>>

-----------------------------------------------------------------------------
(* Bounds of the model *)

MaxTime   == 4     \* the provider hands out timestamps 1..MaxTime
MaxInlineTime == 3 \* ... and 1..MaxInlineTime once an INLINE block exists
MaxBlocks == 2     \* at most this many Block rows
MaxTags   == 1     \* at most this many tags
MaxTreeBlocks == 3 \* at most this many Block rows where the block tree is explored
MaxCalls  == 2     \* at most this many interleaved change_lines calls
MaxTreeTime == 2   \* edits stop at this timestamp where the block tree is explored

(* Program constants *)

NoTimestamp == -1  \* `undefined`: the value of a field that was never assigned
NoBlock     == 0   \* no parent / no origin / no source block (null)

Eol == "\n"

\* The content a caller passes for the edit whose version is stamped t: one
\* distinct character per timestamp, so that two versions never look alike.
Alphabet == <<"c", "d", "e", "f", "g", "h", "i", "j", "k", "l">>
NewContent(t) == <<Alphabet[t]>>

\* The file contents load_file is called with.
FileContents == { <<"p", Eol, "q">> }

-----------------------------------------------------------------------------
(* Strings: sequences of one-character strings *)

RECURSIVE Split(_)
Split(s) ==
    IF \A i \in 1..Len(s) : s[i] # Eol
    THEN <<s>>
    ELSE LET k == CHOOSE i \in 1..Len(s) : s[i] = Eol /\ \A j \in 1..(i-1) : s[j] # Eol
         IN  <<SubSeq(s, 1, k-1)>> \o Split(SubSeq(s, k+1, Len(s)))

RECURSIVE Join(_)
Join(ls) ==
    IF ls = <<>> THEN <<>>
    ELSE IF Len(ls) = 1 THEN ls[1]
    ELSE ls[1] \o <<Eol>> \o Join(Tail(ls))

-----------------------------------------------------------------------------
(* The store as a record, and the queries of BlockProxy over it *)

Cur == [order |-> order, versions |-> versions, blocks |-> blocks,
        cache |-> cache, clock |-> clock]

Blocks(st) == DOMAIN st.blocks
Lines(st)  == DOMAIN st.versions

Version(st, l, i) == st.versions[l][i]

\* BlockProxy.timestamp: the getter returns the cached _timestamp.
Timestamp(st, b) == st.cache[b]

\* Prisma filters { lte: x } and { gt: x }: an undefined bound is no filter.
Lte(t, bound) == bound = NoTimestamp \/ t <= bound
Gt(t, bound)  == bound = NoTimestamp \/ t > bound

MaxIdx(st, l, I) ==
    CHOOSE i \in I : \A j \in I : Version(st, l, j).timestamp <= Version(st, l, i).timestamp
MinIdx(st, l, I) ==
    CHOOSE i \in I : \A j \in I : Version(st, l, i).timestamp <= Version(st, l, j).timestamp

\* groupBy lineId where timestamp <= this.timestamp, _max timestamp: the
\* claimed lines that have a version at or before the block's timestamp.
potentiallyActiveHeads(st, b) ==
    { l \in st.blocks[b].lines :
        \E i \in DOMAIN st.versions[l] : Lte(Version(st, l, i).timestamp, Timestamp(st, b)) }

headOfPotentiallyActive(st, b, l) ==
    MaxIdx(st, l, { i \in DOMAIN st.versions[l] : Lte(Version(st, l, i).timestamp, Timestamp(st, b)) })

\* getHeads: per claimed line the index of its head version.
getHeads(st, b) ==
    [ l \in st.blocks[b].lines |->
        IF l \in potentiallyActiveHeads(st, b)
        THEN headOfPotentiallyActive(st, b, l)
        ELSE MinIdx(st, l, DOMAIN st.versions[l]) ]

getLines(st, b) == SelectSeq(st.order, LAMBDA l : l \in st.blocks[b].lines)

getActiveLines(st, b) ==
    SelectSeq(st.order, LAMBDA l :
        /\ l \in potentiallyActiveHeads(st, b)
        /\ Version(st, l, headOfPotentiallyActive(st, b, l)).isActive)

getActiveLineCount(st, b) ==
    Cardinality({ l \in potentiallyActiveHeads(st, b) :
                    Version(st, l, headOfPotentiallyActive(st, b, l)).isActive })

getChildren(st, b) == SelectSeq([i \in 1..Len(st.blocks) |-> i], LAMBDA c : st.blocks[c].parent = b)

\* getVersionsForText: the block's own heads, overridden by the heads of its
\* children (recursively); a clone in clonesToConsider replaces its origin.
RECURSIVE getVersionsForText(_, _, _, _)
RECURSIVE versionsOfChildren(_, _, _, _)
getVersionsForText(st, b, clonesToConsider, collectedVersions) ==
    LET clones == { c \in clonesToConsider : st.blocks[c].origin = b } IN
    IF clones # {}
    THEN getVersionsForText(st, CHOOSE c \in clones : \A d \in clones : c <= d,
                            clonesToConsider, collectedVersions)
    ELSE LET heads == getHeads(st, b)
             vs    == [ l \in (DOMAIN collectedVersions) \cup (DOMAIN heads) |->
                          IF l \in DOMAIN heads THEN heads[l] ELSE collectedVersions[l] ]
         IN  versionsOfChildren(st, getChildren(st, b), clonesToConsider, vs)
\* A traversal that leaves the children out
versionsWithoutChildren(st, children, clonesToConsider, collectedVersions) == collectedVersions

versionsOfChildren(st, children, clonesToConsider, collectedVersions) ==
    IF children = <<>> THEN collectedVersions
    ELSE versionsOfChildren(st, Tail(children), clonesToConsider,
             getVersionsForText(st, Head(children), clonesToConsider, collectedVersions))

Contents(st, ls, vs) == [ i \in 1..Len(ls) |-> Version(st, ls[i], vs[ls[i]]).content ]

getText(st, b, clonesToConsider) ==
    LET vs == getVersionsForText(st, b, clonesToConsider, <<>>)
        ls == SelectSeq(getLines(st, b), LAMBDA l : Version(st, l, vs[l]).isActive)
    IN  Join(Contents(st, ls, vs))

-----------------------------------------------------------------------------
(* The timeline engine of BlockProxy *)

VersionsOf(st, b) ==
    UNION { { <<l, i>> : i \in DOMAIN st.versions[l] } : l \in st.blocks[b].lines }

TimestampOf(st, v) == Version(st, v[1], v[2]).timestamp
TypeOf(st, v)      == Version(st, v[1], v[2]).type

\* orderBy timestamp asc; equal timestamps in creation order
Before(st, x, y) ==
    \/ TimestampOf(st, x) < TimestampOf(st, y)
    \/ /\ TimestampOf(st, x) = TimestampOf(st, y)
       /\ (x[1] < y[1] \/ (x[1] = y[1] /\ x[2] < y[2]))

RECURSIVE sortByTimestamp(_, _)
sortByTimestamp(st, S) ==
    IF S = {} THEN <<>>
    ELSE LET m == CHOOSE x \in S : \A y \in S : x = y \/ Before(st, x, y)
         IN  <<m>> \o sortByTimestamp(st, S \ {m})

importedVersions(st, b) == { v \in VersionsOf(st, b) : TypeOf(st, v) = "IMPORTED" }

\* getLastImportedVersion: findFirst of the IMPORTED versions, timestamp desc
\* (here: its timestamp, NoTimestamp when the block has none).
getLastImportedVersion(st, b) ==
    IF importedVersions(st, b) = {} THEN NoTimestamp
    ELSE TimestampOf(st, CHOOSE v \in importedVersions(st, b) :
             \A w \in importedVersions(st, b) : TimestampOf(st, w) <= TimestampOf(st, v))

getTimeline(st, b) ==
    LET lastImportedLine == getLastImportedVersion(st, b) IN
    sortByTimestamp(st, { v \in VersionsOf(st, b) :
        /\ TypeOf(st, v) # "CLONE"
        /\ (lastImportedLine = NoTimestamp \/ TimestampOf(st, v) >= lastImportedLine) })

getTimelineIndexFor(st, b, v) ==
    Cardinality({ w \in VersionsOf(st, b) :
        /\ TypeOf(st, w) \notin {"IMPORTED", "CLONE"}
        /\ TimestampOf(st, w) < TimestampOf(st, v) })

\* getCurrentVersion: findFirstOrThrow over the potentially active heads,
\* ordered by line order desc.
hasCurrentVersion(st, b) == potentiallyActiveHeads(st, b) # {}
getCurrentVersion(st, b) ==
    LET ls == SelectSeq(st.order, LAMBDA l : l \in potentiallyActiveHeads(st, b))
        l  == ls[Len(ls)]
    IN  <<l, headOfPotentiallyActive(st, b, l)>>

\* getHeadFor(line): the last version of the line at or before the block's
\* timestamp; without one, findFirstOrThrow over the versions of the lines of
\* the block (not of this line alone), timestamp asc.
getHeadFor(st, b, l) ==
    IF l \in potentiallyActiveHeads(st, b)
    THEN <<l, headOfPotentiallyActive(st, b, l)>>
    ELSE sortByTimestamp(st, VersionsOf(st, b))[1]

\* getVersionCount: the versions of the claimed lines that are not CLONE
getVersionCount(st, b) == Cardinality({ v \in VersionsOf(st, b) : TypeOf(st, v) # "CLONE" })

\* getOriginalLineCount: the IMPORTED versions of the claimed lines
getOriginalLineCount(st, b) == Cardinality(importedVersions(st, b))

\* asBlockInfo(...).userVersionCount
userVersionCount(st, b) ==
    getVersionCount(st, b) - getOriginalLineCount(st, b)
        + (IF getLastImportedVersion(st, b) # NoTimestamp THEN 1 ELSE 0)

\* Block.getUserVersionCount() of core/block.ts: every version of the lines of
\* the block, less its lines, plus one
getUserVersionCount(st, b) ==
    Cardinality(VersionsOf(st, b)) - Cardinality(st.blocks[b].lines) + 1

\* DBBlock.asSnapshotData(...).versionCount of core/block.ts, from the counts
\* of the store: getVersionCount() - getLineCount() + 1
snapshotVersionCount(st, b) ==
    LET versionCount == Cardinality(VersionsOf(st, b))
        lineCount    == Cardinality(st.blocks[b].lines)
    IN  versionCount - lineCount + 1

\* asBlockInfo(...).currentVersionIndex
currentVersionIndex(st, b) == getTimelineIndexFor(st, b, getCurrentVersion(st, b))

-----------------------------------------------------------------------------
(* Mutations of the store *)

\* TimestampProvider.getTimestamp(): the next timestamp
getTimestamp(st) == st.clock + 1

\* BlockProxy.setTimestamp: update of the row; the proxy's _timestamp is set
\* from the updated row. An undefined newTimestamp leaves the row as it is.
setTimestamp(st, b, newTimestamp) ==
    LET row == IF newTimestamp = NoTimestamp THEN st.blocks[b].timestamp ELSE newTimestamp
    IN  [st EXCEPT !.blocks[b].timestamp = row, !.cache[b] = row]

createVersion(st, l, v) == [st EXCEPT !.versions[l] = Append(@, v)]

\* LineProxy.updateContent(block, content): a CHANGE version stamped from the
\* provider; the editing block's timestamp is advanced to it.
updateContent(st, l, b, content) ==
    LET t == getTimestamp(st)
        v == [timestamp |-> t, type |-> "CHANGE", isActive |-> TRUE,
              content |-> content, sourceBlock |-> b, origin |-> 0]
    IN  setTimestamp(createVersion([st EXCEPT !.clock = t], l, v), b, t)

\* BlockProxy.createRootBlock
createRootBlock(st) ==
    LET all == UNION { { Version(st, l, i).timestamp : i \in DOMAIN st.versions[l] } : l \in Lines(st) }
        latestTimestamp == IF all = {} THEN 0 ELSE CHOOSE t \in all : \A u \in all : u <= t
        id  == Len(st.blocks) + 1
        row == [blockId |-> <<>>, type |-> "ROOT", parent |-> NoBlock, origin |-> NoBlock,
                timestamp |-> latestTimestamp, lines |-> Lines(st), isDeleted |-> FALSE]
    IN  [st EXCEPT !.blocks   = Append(@, row),
                   !.cache    = Append(@, NoTimestamp),
                   !.versions = [ l \in DOMAIN @ |->
                                   [ i \in DOMAIN @[l] |-> [ @[l][i] EXCEPT !.sourceBlock = id ] ] ]]

-----------------------------------------------------------------------------
(* Initial state: FileProxy.create (load_file) has imported the content *)

Install(st) ==
    /\ order'    = st.order
    /\ versions' = st.versions
    /\ blocks'   = st.blocks
    /\ cache'    = st.cache
    /\ clock'    = st.clock

Init ==
    \E content \in FileContents :
        LET lineContents == Split(content) IN
        /\ order    = [ l \in 1..Len(lineContents) |-> l ]
        /\ versions = [ l \in 1..Len(lineContents) |->
                          << [timestamp |-> 1, type |-> "IMPORTED", isActive |-> TRUE,
                              content |-> lineContents[l], sourceBlock |-> NoBlock, origin |-> 0] >> ]
        /\ blocks   = <<>>
        /\ cache    = <<>>
        /\ clock    = 1
        /\ tags     = <<>>
        /\ pending  = <<>>
        /\ last     = [op |-> "loadFile", b |-> NoBlock, args |-> <<>>, ok |-> TRUE, ret |-> <<>>]

-----------------------------------------------------------------------------
(* Operations *)

\* The bound on the provider: edits stop at MaxTime, at MaxInlineTime once an
\* INLINE block exists.
TimeBound == IF \E c \in Blocks(Cur) : blocks[c].type = "INLINE" THEN MaxInlineTime ELSE MaxTime

Done(op, b, args) == last' = [op |-> op, b |-> b, args |-> args, ok |-> TRUE, ret |-> <<>>]

CreateRootBlock ==
    /\ blocks = <<>>
    /\ Install(createRootBlock(Cur))
    /\ UNCHANGED <<tags, pending>>
    /\ Done("createRootBlock", Len(blocks) + 1, <<>>)

\* BlockProxy.updateLine(lineNumber, content)
\* lines[lineNumber - 1] is undefined outside the active lines, and the call
\* fails on it before any write (Block.getLineByLineNumber throws)
containsLineNumber(st, b, lineNumber) == lineNumber \in 1..Len(getActiveLines(st, b))

updateLine(st, b, lineNumber, content) ==
    IF ~containsLineNumber(st, b, lineNumber) THEN st
    ELSE updateContent(st, getActiveLines(st, b)[lineNumber], b, content)

UpdateLine(b, lineNumber) ==
    /\ clock < TimeBound
    /\ Install(updateLine(Cur, b, lineNumber, NewContent(clock + 1)))
    /\ UNCHANGED <<tags, pending>>
    /\ last' = [op |-> "updateLine", b |-> b, args |-> <<lineNumber>>,
                ok |-> containsLineNumber(Cur, b, lineNumber), ret |-> <<>>]

\* A scrub that also moves the parent of the block
applyTimestampWithParent(st, b, timestamp) ==
    IF st.blocks[b].parent = NoBlock THEN setTimestamp(st, b, timestamp)
    ELSE setTimestamp(setTimestamp(st, b, timestamp), st.blocks[b].parent, timestamp)

\* A scrub that moves every block of the file
applyTimestampToAll(st, b, timestamp) ==
    [st EXCEPT !.blocks = [ c \in DOMAIN @ |-> [ @[c] EXCEPT !.timestamp = timestamp ] ],
               !.cache  = [ c \in DOMAIN @ |-> timestamp ]]

\* BlockProxy.applyTimestamp(timestamp)
applyTimestamp(st, b, timestamp) == setTimestamp(st, b, timestamp)

ApplyTimestamp(b, timestamp) ==
    /\ Install(applyTimestamp(Cur, b, timestamp))
    /\ UNCHANGED <<tags, pending>>
    /\ Done("applyTimestamp", b, <<timestamp>>)

\* BlockProxy.applyIndex(targetIndex), targetIndex counted from 0
\* throw new Error(`Target index ... out of bounds ...`)
outOfBounds(st, b, targetIndex) ==
    targetIndex < 0 \/ targetIndex >= Len(getTimeline(st, b))

applyIndex(st, b, targetIndex) ==
    LET timeline        == getTimeline(st, b)
        selectedVersion == timeline[targetIndex + 1]
    IN  IF outOfBounds(st, b, targetIndex) THEN st
        ELSE applyTimestamp(st, b, TimestampOf(st, selectedVersion))

ApplyIndex(b, targetIndex) ==
    /\ Install(applyIndex(Cur, b, targetIndex))
    /\ UNCHANGED <<tags, pending>>
    /\ last' = [op |-> "applyIndex", b |-> b, args |-> <<targetIndex>>,
                ok |-> ~outOfBounds(Cur, b, targetIndex), ret |-> <<>>]

-----------------------------------------------------------------------------
(* Insertion of lines *)

Pos(st, l) == CHOOSE i \in 1..Len(st.order) : st.order[i] = l

\* the versions of a set of lines, as <<line, index>>
AllVersionsOf(st, ls) == UNION { { <<l, i>> : i \in DOMAIN st.versions[l] } : l \in ls }

InsertAfter(seq, i, x) == SubSeq(seq, 1, i) \o <<x>> \o SubSeq(seq, i + 1, Len(seq))

\* FileProxy.insertLines(lineContents, { previous, next, sourceBlock }): every
\* content becomes a new Line after position pos of the file, born with a
\* hidden PRE_INSERTION version at t and its INSERTION version at t + 1; the
\* timestamp of the source block is advanced to the last stamp written.
RECURSIVE fileInsertLines(_, _, _, _)
fileInsertLines(st, lineContents, pos, sourceBlock) ==
    IF lineContents = <<>> THEN st
    ELSE LET l   == Len(st.versions) + 1
             t   == getTimestamp(st)
             v0  == [timestamp |-> t, type |-> "PRE_INSERTION", isActive |-> FALSE,
                     content |-> <<>>, sourceBlock |-> sourceBlock, origin |-> 0]
             v1  == [timestamp |-> t + 1, type |-> "INSERTION", isActive |-> TRUE,
                     content |-> Head(lineContents), sourceBlock |-> sourceBlock, origin |-> 0]
             st1 == [st EXCEPT !.order    = InsertAfter(@, pos, l),
                               !.versions = Append(@, <<v0, v1>>),
                               !.clock    = t + 1]
         IN  fileInsertLines(setTimestamp(st1, sourceBlock, t + 1),
                             Tail(lineContents), pos + 1, sourceBlock)

\* LineProxy.getBlocks(): the blocks claiming a line
getBlocks(st, l) == { c \in Blocks(st) : l \in st.blocks[c].lines }

\* LineProxy.addBlocks: connects the line to the blocks
addBlocks(st, l, bs) ==
    [st EXCEPT !.blocks = [ c \in DOMAIN @ |->
        IF c \in bs THEN [ @[c] EXCEPT !.lines = @ \cup {l} ] ELSE @[c] ]]

RECURSIVE addBlocksToAll(_, _, _)
addBlocksToAll(st, ls, bs) ==
    IF ls = {} THEN st
    ELSE LET l == CHOOSE x \in ls : TRUE
         IN  addBlocksToAll(addBlocks(st, l, bs), ls \ {l}, bs)

\* insertLines that connects the new lines to the inserting block alone
insertLinesOwnOnly(st, b, lineContents, previous, next, blockReference, where) ==
    LET pos == IF previous # 0 /\ (next = 0 \/ where = 0)
               THEN Pos(st, previous)
               ELSE Pos(st, next) - 1
        st1 == fileInsertLines(st, lineContents, pos, b)
        lines == (Len(st.versions) + 1)..Len(st1.versions)
    IN  addBlocksToAll(st1, lines, {b})

\* BlockProxy.insertLines: previous / next are line ids, 0 when undefined.
\* Where lines lie between previous and next, `where` selects the place the
\* file gives the new lines: right after previous (0) or right before next (1).
insertLines(st, b, lineContents, previous, next, blockReference, where) ==
    LET pos == IF previous # 0 /\ (next = 0 \/ where = 0)
               THEN Pos(st, previous)
               ELSE Pos(st, next) - 1
        st1 == fileInsertLines(st, lineContents, pos, b)
        lines == (Len(st.versions) + 1)..Len(st1.versions)
        blockReferenceLine ==
            IF blockReference = "Previous"
            THEN (IF previous # 0 THEN previous ELSE next)
            ELSE (IF next # 0 THEN next ELSE previous)
    IN  addBlocksToAll(st1, lines, getBlocks(st1, blockReferenceLine))

prependLines(st, b, lineContents) ==
    LET own          == getLines(st, b)
        nextLine     == own[1]
        before       == SelectSeq(st.order, LAMBDA l :
                            l \notin st.blocks[b].lines /\ Pos(st, l) < Pos(st, nextLine))
        previousLine == IF before = <<>> THEN 0 ELSE before[Len(before)]
    IN  insertLines(st, b, lineContents, previousLine, nextLine, "Next", 0)

appendLines(st, b, lineContents) ==
    LET own          == getLines(st, b)
        previousLine == own[Len(own)]
        after        == SelectSeq(st.order, LAMBDA l :
                            l \notin st.blocks[b].lines /\ Pos(st, l) > Pos(st, previousLine))
        nextLine     == IF after = <<>> THEN 0 ELSE after[1]
    IN  insertLines(st, b, lineContents, previousLine, nextLine, "Previous", 0)

Min(a, b) == IF a <= b THEN a ELSE b
Max(a, b) == IF a >= b THEN a ELSE b

insertLinesAt(st, b, lineNumber, lineContents, where) ==
    LET lastLineNumber      == getActiveLineCount(st, b)
        newLastLine         == lastLineNumber + 1
        insertionLineNumber == Min(Max(lineNumber, 1), newLastLine)
    IN  IF insertionLineNumber = 1 THEN prependLines(st, b, lineContents)
        ELSE IF insertionLineNumber = newLastLine THEN appendLines(st, b, lineContents)
        ELSE LET activeLines == getActiveLines(st, b)
             IN  insertLines(st, b, lineContents, activeLines[insertionLineNumber - 1],
                             activeLines[insertionLineNumber], "Previous", where)

insertLineAt(st, b, lineNumber, content, where) ==
    insertLinesAt(st, b, lineNumber, <<content>>, where)

InsertLineAt(b, lineNumber, where) ==
    /\ clock + 2 <= TimeBound
    /\ lineNumber \in 1..(getActiveLineCount(Cur, b) + 1)
    /\ Install(insertLineAt(Cur, b, lineNumber, NewContent(clock + 2), where))
    /\ UNCHANGED <<tags, pending>>
    /\ Done("insertLineAt", b, <<lineNumber>>)

\* asBlockInfo(...).range: the block's place among the active lines of its
\* parent, from the lines of the file before the block that the block does not
\* claim, at the timestamp of the parent's proxy
activeLinesBeforeBlock(st, b) ==
    LET parentTimestamp == Timestamp(st, st.blocks[b].parent)
        firstLine       == getLines(st, b)[1]
        potentiallyActiveHeadsBeforeBlock ==
            { l \in Lines(st) :
                /\ l \notin st.blocks[b].lines
                /\ Pos(st, l) < Pos(st, firstLine)
                /\ \E i \in DOMAIN st.versions[l] : Lte(Version(st, l, i).timestamp, parentTimestamp) }
        maxTimestamp(l) ==
            Version(st, l, MaxIdx(st, l, { i \in DOMAIN st.versions[l] :
                                Lte(Version(st, l, i).timestamp, parentTimestamp) })).timestamp
    IN  Cardinality({ v \in AllVersionsOf(st, potentiallyActiveHeadsBeforeBlock) :
                        /\ Version(st, v[1], v[2]).timestamp = maxTimestamp(v[1])
                        /\ Version(st, v[1], v[2]).isActive })

rangeInParent(st, b) ==
    IF st.blocks[b].parent = NoBlock
    THEN [startLine |-> 1, endLine |-> getActiveLineCount(st, b)]
    ELSE [startLine |-> activeLinesBeforeBlock(st, b) + 1,
          endLine   |-> activeLinesBeforeBlock(st, b) + getActiveLineCount(st, b)]

-----------------------------------------------------------------------------
(* Children and clones of versions *)

\* getLinesInRange(range): every claimed line between the first and the last
\* active line of the range; Failed when the range is not within the active lines.
inRange(st, b, startLine, endLine) ==
    /\ startLine \in 1..Len(getActiveLines(st, b))
    /\ endLine   \in 1..Len(getActiveLines(st, b))

getLinesInRange(st, b, startLine, endLine) ==
    LET heads          == getHeads(st, b)
        activeVersions == SelectSeq(getLines(st, b), LAMBDA l : Version(st, l, heads[l]).isActive)
        firstVersion   == activeVersions[startLine]
        lastVersion    == activeVersions[endLine]
    IN  { l \in st.blocks[b].lines :
            Pos(st, firstVersion) <= Pos(st, l) /\ Pos(st, l) <= Pos(st, lastVersion) }

getChildrenCount(st, b) == Cardinality({ c \in Blocks(st) : st.blocks[c].parent = b })

\* inlineCopy(lines): the child row takes the proxy's timestamp.
inlineCopy(st, b, lines) ==
    LET row == [blockId |-> Append(st.blocks[b].blockId, getChildrenCount(st, b)),
                type |-> "INLINE", parent |-> b, origin |-> NoBlock,
                timestamp |-> Timestamp(st, b), lines |-> lines, isDeleted |-> FALSE]
    IN  [st EXCEPT !.blocks = Append(@, row), !.cache = Append(@, NoTimestamp)]

\* an overlap test that finds only a child claiming exactly the lines of the range
sameRangeChild(st, b, linesInRange) ==
    \E c \in Blocks(st) : st.blocks[c].parent = b /\ st.blocks[c].lines = linesInRange

overlappingChild(st, b, linesInRange) ==
    \E c \in Blocks(st) : st.blocks[c].parent = b /\ st.blocks[c].lines \cap linesInRange # {}

\* createChild(range): null on overlap. The creation of a row without a
\* timestamp (the proxy's timestamp was never set) is rejected by the store.
canCreateChild(st, b, startLine, endLine) ==
    /\ inRange(st, b, startLine, endLine)
    /\ ~overlappingChild(st, b, getLinesInRange(st, b, startLine, endLine))
    /\ Timestamp(st, b) # NoTimestamp

createChild(st, b, startLine, endLine) ==
    IF canCreateChild(st, b, startLine, endLine)
    THEN inlineCopy(st, b, getLinesInRange(st, b, startLine, endLine))
    ELSE st

\* A call that is rejected creates no row and is possible at every size.
CreateChildUpTo(b, startLine, endLine, maxBlocks) ==
    /\ startLine <= endLine
    /\ inRange(Cur, b, startLine, endLine)
    /\ Len(blocks) < maxBlocks \/ ~canCreateChild(Cur, b, startLine, endLine)
    /\ Install(createChild(Cur, b, startLine, endLine))
    /\ UNCHANGED <<tags, pending>>
    /\ last' = [op |-> "createChild", b |-> b, args |-> <<startLine, endLine>>,
                ok |-> canCreateChild(Cur, b, startLine, endLine), ret |-> <<>>]

CreateChild(b, startLine, endLine) ==
    Len(blocks) < MaxBlocks /\ CreateChildUpTo(b, startLine, endLine, MaxBlocks)

\* BlockProxy.copy(): a CLONE block of the lines of the heads, at the latest
\* timestamp of the heads
copy(st, b) ==
    LET heads  == getHeads(st, b)
        stamps == { Version(st, l, heads[l]).timestamp : l \in DOMAIN heads }
        latestTimestamp == IF stamps = {} THEN 0 ELSE CHOOSE t \in stamps : \A u \in stamps : u <= t
        cloneCount == Cardinality({ c \in Blocks(st) : st.blocks[c].origin = b })
        row == [blockId |-> Append(st.blocks[b].blockId, cloneCount),
                type |-> "CLONE", parent |-> NoBlock, origin |-> b,
                timestamp |-> latestTimestamp, lines |-> DOMAIN heads, isDeleted |-> FALSE]
    IN  [st EXCEPT !.blocks = Append(@, row), !.cache = Append(@, NoTimestamp)]

\* new ForkBlock(options) of core/block.ts, called with a Block: the cast
\* options as ForkBlockOptions is never falsy, so the branch of the options
\* is the one taken; it assigns the parent and never the origin.
ForkBlock(st, options) ==
    [origin |-> NoBlock, parent |-> st.blocks[options].parent, isDeleted |-> FALSE]

\* Block.copy() of core/block.ts
BlockCopy(st, b) == ForkBlock(st, b)

Copy(b, maxBlocks) ==
    /\ Len(blocks) < maxBlocks
    /\ ~blocks[b].isDeleted
    /\ Install(copy(Cur, b))
    /\ UNCHANGED <<tags, pending>>
    /\ Done("copy", b, <<>>)

\* a delete that leaves the children alone
deleteNoChildren(st, children) == st

\* Block.delete(): the block leaves the lines and the child map of its parent
\* and is marked deleted, and so are its children, recursively; lines and
\* versions stay.
RECURSIVE deleteBlock(_, _)
RECURSIVE deleteBlocks(_, _)
deleteBlock(st, b) ==
    LET children == getChildren(st, b)
        st1 == [st EXCEPT !.blocks[b].lines = {}, !.blocks[b].parent = NoBlock,
                          !.blocks[b].isDeleted = TRUE]
    IN  deleteBlocks(st1, children)
deleteBlocks(st, children) ==
    IF children = <<>> THEN st
    ELSE deleteBlocks(deleteBlock(st, Head(children)), Tail(children))

\* the list Block.delete() returns: what the deletes of the children return,
\* then the block itself
RECURSIVE deletedBlocks(_, _)
RECURSIVE deletedByChildren(_, _)
deletedBlocks(st, b) == Append(deletedByChildren(st, getChildren(st, b)), b)
deletedByChildren(st, children) ==
    IF children = <<>> THEN <<>>
    ELSE deletedBlocks(st, Head(children))
           \o deletedByChildren(deleteBlock(st, Head(children)), Tail(children))

DeleteBlock(b) ==
    /\ ~blocks[b].isDeleted
    /\ blocks[b].type # "ROOT"
    /\ Install(deleteBlock(Cur, b))
    /\ UNCHANGED <<tags, pending>>
    /\ last' = [op |-> "delete", b |-> b, args |-> <<>>, ok |-> TRUE,
                ret |-> deletedBlocks(Cur, b)]

RECURSIVE createClones(_, _, _, _)
createClones(st, ls, b, cloneTimestamp) ==
    IF ls = {} THEN st
    ELSE LET l    == CHOOSE x \in ls : \A y \in ls : x <= y
             head == Version(st, l, getHeads(st, b)[l])
             v    == [timestamp |-> cloneTimestamp, type |-> "CLONE", isActive |-> head.isActive,
                      content |-> head.content, sourceBlock |-> b, origin |-> getHeads(st, b)[l]]
             \* the heads are read before any clone is written
         IN  createVersion(createClones(st, ls \ {l}, b, cloneTimestamp), l, v)

\* cloneOutdatedHeads
linesToUpdate(st, b) ==
    { l \in st.blocks[b].lines :
        \E i \in DOMAIN st.versions[l] :
            Timestamp(st, b) = NoTimestamp \/ Version(st, l, i).timestamp > Timestamp(st, b) }

cloneOutdatedHeads(st, b) ==
    LET headsToClone == linesToUpdate(st, b) IN
    IF headsToClone = {} THEN st
    ELSE LET cloneTimestamp == getTimestamp(st)
         IN  setTimestamp(createClones([st EXCEPT !.clock = cloneTimestamp],
                                       headsToClone, b, cloneTimestamp), b, cloneTimestamp)

CloneOutdatedHeads(b) ==
    /\ clock < TimeBound
    /\ Install(cloneOutdatedHeads(Cur, b))
    /\ UNCHANGED <<tags, pending>>
    /\ Done("cloneOutdatedHeads", b, <<>>)

-----------------------------------------------------------------------------
(* The edit engine: changeLines *)

IsSpace(c) == c \in {" ", "\t"}

\* s.length - s.trimStart().length
leadingSpaces(s) ==
    Cardinality({ i \in 1..Len(s) : \A j \in 1..i : IsSpace(s[j]) })

\* s.trim().length === 0
isBlank(s) == \A i \in 1..Len(s) : IsSpace(s[i])

Last(seq) == seq[Len(seq)]
Front(seq) == SubSeq(seq, 1, Len(seq) - 1)

\* heads.filter(head => head.isActive) of changeLines: the lines of the active
\* heads, in line order
activeHeads(st, b) ==
    SelectSeq(getLines(st, b), LAMBDA l : Version(st, l, getHeads(st, b)[l]).isActive)

\* The classification of a change (changeLines, the constants up to noModifications)
startLineContent(st, b, change) ==
    Version(st, activeHeads(st, b)[change.startLineNumber],
            getHeads(st, b)[activeHeads(st, b)[change.startLineNumber]]).content

insertedBeforeCode(st, b, change) ==
    leadingSpaces(startLineContent(st, b, change)) + 1 >= change.startColumn

startsWithEol(change) == change.insertedText # <<>> /\ Head(change.insertedText) = Eol
endsWithEol(change) ==
    \/ change.insertedText # <<>> /\ Last(change.insertedText) = Eol
    \/ isBlank(Last(Split(change.insertedText)))

insertedAtEndOfStartLine(st, b, change) ==
    change.startColumn > Len(startLineContent(st, b, change))

oneLineInsertOnly(change) ==
    /\ change.startLineNumber = change.endLineNumber
    /\ change.startColumn = change.endColumn

pushStartLineDown(st, b, change) == insertedBeforeCode(st, b, change) /\ endsWithEol(change)
pushStartLineUp(st, b, change)   == insertedAtEndOfStartLine(st, b, change) /\ startsWithEol(change)

noModifications(st, b, change) ==
    oneLineInsertOnly(change) /\ (pushStartLineUp(st, b, change) \/ pushStartLineDown(st, b, change))

modifiedRange(st, b, change) ==
    IF pushStartLineUp(st, b, change)
    THEN [startLine |-> change.startLineNumber + 1, endLine |-> change.endLineNumber]
    ELSE IF pushStartLineDown(st, b, change)
    THEN [startLine |-> change.startLineNumber, endLine |-> change.endLineNumber - 1]
    ELSE [startLine |-> change.startLineNumber, endLine |-> change.endLineNumber]

modifiedLines(st, b, change) ==
    IF pushStartLineUp(st, b, change) THEN Tail(Split(change.lineText))
    ELSE IF pushStartLineDown(st, b, change) THEN Front(Split(change.lineText))
    ELSE Split(change.lineText)

vcsLines(st, b, change) ==
    IF noModifications(st, b, change) THEN <<>>
    ELSE LET activeLines == activeHeads(st, b)
             range       == modifiedRange(st, b, change)
         IN  SubSeq(activeLines, range.startLine, Min(range.endLine, Len(activeLines)))

\* A stamp that reuses the provider's last timestamp instead of a fresh one
stampVersionLast(st, l, b, type, isActive, content) ==
    createVersion(st, l, [timestamp |-> st.clock, type |-> type, isActive |-> isActive,
                          content |-> content, sourceBlock |-> b, origin |-> 0])

\* deleteLine / updateLine of changeLines: one version, stamped from the provider
stampVersion(st, l, b, type, isActive, content) ==
    LET t == getTimestamp(st)
    IN  createVersion([st EXCEPT !.clock = t], l,
            [timestamp |-> t, type |-> type, isActive |-> isActive,
             content |-> content, sourceBlock |-> b, origin |-> 0])

\* for (i = vcsLines.length - 1; i >= modifiedLines.length; i--) deleteLine(vcsLines[i])
RECURSIVE deleteLines(_, _, _, _, _)
deleteLines(st, b, ls, i, m) ==
    IF i <= m THEN st
    ELSE deleteLines(stampVersion(st, ls[i], b, "DELETION", FALSE, <<>>), b, ls, i - 1, m)

\* a loop that updates the first line only
updateFirstLine(st, b, ls, contents, i) ==
    IF Min(Len(ls), Len(contents)) = 0 THEN st
    ELSE stampVersion(st, ls[1], b, "CHANGE", TRUE, contents[1])

\* for (i = 0; i < min(vcsLines.length, modifiedLines.length); i++) updateLine(vcsLines[i], modifiedLines[i])
RECURSIVE updateLines(_, _, _, _, _)
updateLines(st, b, ls, contents, i) ==
    IF i > Min(Len(ls), Len(contents)) THEN st
    ELSE updateLines(stampVersion(st, ls[i], b, "CHANGE", TRUE, contents[i]), b, ls, contents, i + 1)

\* prismaClient.$transaction(prismaOperations): the DELETION and CHANGE
\* versions and the timestamp of the block
\* a transaction that stores the versions and leaves the block's timestamp
transactVersionsOnly(st, b, ls, lines) ==
    LET st1 == deleteLines(st, b, ls, Len(ls), Len(lines))
    IN  updateLines(st1, b, ls, lines, 1)

transact(st, b, ls, lines) ==
    LET st1   == deleteLines(st, b, ls, Len(ls), Len(lines))
        st2   == updateLines(st1, b, ls, lines, 1)
        \* let latestTimestamp = block.timestamp, overwritten by every stamp
        latestTimestamp == IF st2.clock = st.clock THEN Timestamp(st, b) ELSE st2.clock
    IN  setTimestamp(st2, b, latestTimestamp)

changeLinesTransaction(st, b, change) ==
    transact(st, b, vcsLines(st, b, change), modifiedLines(st, b, change))

\* the lines are taken from the heads the call read at its start; the
\* insertion follows the transaction
changeLines(st, b, change, where) ==
    LET ls    == vcsLines(st, b, change)
        lines == modifiedLines(st, b, change)
        range == modifiedRange(st, b, change)
        st3   == changeLinesTransaction(st, b, change)
        linesToInsert == SubSeq(lines, Len(ls) + 1, Len(lines))
    IN  insertLinesAt(st3, b, range.startLine + Len(ls), linesToInsert, where)

\* The text an editor that shows the active lines of block b sends for
\* replacing the range by insertedText: the affected lines after the edit.
ActiveContents(st, b) ==
    LET ls == activeHeads(st, b)
    IN  [ i \in 1..Len(ls) |-> Version(st, ls[i], getHeads(st, b)[ls[i]]).content ]

MultiLineChange(buffer, sl, sc, el, ec, insertedText) ==
    [startLineNumber |-> sl, startColumn |-> sc, endLineNumber |-> el, endColumn |-> ec,
     insertedText |-> insertedText,
     lineText |-> SubSeq(buffer[sl], 1, sc - 1) \o insertedText
                  \o SubSeq(buffer[el], ec, Len(buffer[el]))]

InsertedTexts == { <<>>, <<"x">>, <<Eol>> }

\* texts that break a line and put text on the new line
BreakingTexts == { <<Eol, "x">>, <<"x", Eol, "x">> }

\* what changeLines returns: the blocks of the affectedLines, which are the
\* lines deleteLine and updateLine were called on, read once the call is through
affectedBlocks(st, b, change, where) ==
    LET ls == vcsLines(st, b, change)
    IN  UNION { getBlocks(changeLines(st, b, change, where), ls[i]) : i \in 1..Len(ls) }

\* The edits in the editor of block b: the selection runs from the start or
\* the end of a line to the start or the end of the same or a later line.
Changes(st, b, insertedTexts) ==
    LET buffer == ActiveContents(st, b) IN
    UNION { UNION { { MultiLineChange(buffer, sl, sc, el, ec, insertedText) :
                        <<sc, ec, insertedText>> \in
                            { x \in {1, Len(buffer[sl]) + 1} \X {1, Len(buffer[el]) + 1} \X insertedTexts :
                                sl = el => x[1] <= x[2] } }
                    : el \in sl..Len(buffer) }
            : sl \in 1..Len(buffer) }

ChangeLinesOf(b, insertedTexts) ==
    /\ clock < TimeBound
    /\ \E change \in Changes(Cur, b, insertedTexts) : \E where \in 0..1 :
           /\ LET st == changeLines(Cur, b, change, where)
              IN  /\ st.clock <= TimeBound
                  /\ Install(st)
                  /\ last' = [op |-> "changeLines", b |-> b,
                              args |-> <<change.endLineNumber - change.startLineNumber + 1,
                                         Len(Split(change.lineText)),
                                         Len(ActiveContents(Cur, b))>>,
                              ok |-> TRUE, ret |-> affectedBlocks(Cur, b, change, where)]
           /\ UNCHANGED <<tags, pending>>

ChangeLines(b) == ChangeLinesOf(b, InsertedTexts)

\* changeLines as its awaits cut it. A call reads the heads and derives the
\* lines it will write (up to line 824); it stamps its versions and hands
\* them to the transaction without an await in between (826-878), and
\* transactions commit in the order they were handed over; it then inserts
\* the remaining lines (880-881).
ReadHeads(b, change, where) ==
    /\ Len(pending) < MaxCalls
    /\ pending' = Append(pending,
            [b |-> b, change |-> change, where |-> where,
             ls |-> vcsLines(Cur, b, change),
             lines |-> modifiedLines(Cur, b, change),
             startLine |-> modifiedRange(Cur, b, change).startLine,
             phase |-> "read", commit |-> 0, stamps |-> {}, base |-> Cur])
    /\ UNCHANGED <<order, versions, blocks, cache, clock, tags>>
    /\ Done("changeLines.read", b, <<>>)

Committed == { i \in DOMAIN pending : pending[i].commit > 0 }

Transact(i) ==
    /\ pending[i].phase = "read"
    /\ LET c  == pending[i]
           st == transact(Cur, c.b, c.ls, c.lines)
       IN  /\ st.clock <= MaxTime
           /\ Install(st)
           /\ pending' = [pending EXCEPT ![i].phase = "committed",
                                          ![i].commit = Cardinality(Committed) + 1,
                                          ![i].stamps = (clock + 1)..st.clock]
           /\ Done("changeLines.transaction", c.b, <<i>>)
    /\ UNCHANGED tags

InsertRemaining(i) ==
    /\ pending[i].phase = "committed"
    /\ LET c  == pending[i]
           st == insertLinesAt(Cur, c.b, c.startLine + Len(c.ls),
                               SubSeq(c.lines, Len(c.ls) + 1, Len(c.lines)), c.where)
       IN  /\ st.clock <= MaxTime
           /\ Install(st)
           /\ pending' = [pending EXCEPT ![i].phase = "done",
                                          ![i].stamps = @ \cup ((clock + 1)..st.clock)]
           /\ Done("changeLines.insert", c.b, <<i>>)
    /\ UNCHANGED tags

-----------------------------------------------------------------------------
(* Tags (Block.createCurrentTag / createTag / loadTag / getTextForVersion) *)

\* Block.getFullText(selectedLines): the text of the root in which the lines
\* of the block (and of the blocks between it and the root) show that block's
\* heads; for the root itself the current text.
RECURSIVE getFullTextOf(_, _, _)
getFullTextOf(st, b, selectedLines) ==
    LET heads    == getHeads(st, b)
        selected == [ l \in (DOMAIN selectedLines) \cup st.blocks[b].lines |->
                        IF l \in DOMAIN selectedLines THEN selectedLines[l]
                        ELSE Version(st, l, heads[l]).content ]
    IN  IF st.blocks[b].parent # NoBlock
        THEN getFullTextOf(st, st.blocks[b].parent, selected)
        ELSE Join([ i \in 1..Len(getLines(st, b)) |-> selected[getLines(st, b)[i]] ])

getCurrentText(st, b) == Join(ActiveContents(st, b))

getFullText(st, b) ==
    IF st.blocks[b].parent = NoBlock THEN getCurrentText(st, b)
    ELSE getFullTextOf(st, b, <<>>)

\* createCurrentTag: new Tag(this, TimestampProvider.getLastTimestamp()); the
\* tag keeps the text of the block at its creation (Tag.code).
createCurrentTag(st, b) == [block |-> b, timestamp |-> st.clock, code |-> getFullText(st, b)]

\* Tag.applyTo(block): the block is moved to the timestamp of the tag
applyTo(st, tag) == applyTimestamp(st, tag.block, tag.timestamp)

loadTag(st, tag) == applyTo(st, tag)

getTextForVersion(st, tag) ==
    LET recoveryPoint == createCurrentTag(st, tag.block)
    IN  applyTo(loadTag(st, tag), recoveryPoint)

CreateTag(b) ==
    /\ Len(tags) < MaxTags
    /\ tags' = Append(tags, createCurrentTag(Cur, b))
    /\ UNCHANGED <<order, versions, blocks, cache, clock, pending>>
    /\ Done("createTag", b, <<Len(tags) + 1>>)

LoadTag(id) ==
    /\ Install(loadTag(Cur, tags[id]))
    /\ UNCHANGED <<tags, pending>>
    /\ last' = [op |-> "loadTag", b |-> tags[id].block, args |-> <<id>>, ok |-> TRUE,
                ret |-> getFullText(loadTag(Cur, tags[id]), tags[id].block)]

GetTextForVersion(id) ==
    /\ Install(getTextForVersion(Cur, tags[id]))
    /\ UNCHANGED <<tags, pending>>
    /\ last' = [op |-> "getTextForVersion", b |-> tags[id].block, args |-> <<id>>, ok |-> TRUE,
                ret |-> getFullText(loadTag(Cur, tags[id]), tags[id].block)]

-----------------------------------------------------------------------------
(* Specifications *)

\* The store with its blocks: editing single lines, scrubbing, children
Next ==
    \/ CreateRootBlock
    \/ \E b \in Blocks(Cur) : \E n \in 1..getActiveLineCount(Cur, b) : UpdateLine(b, n)
    \/ \E b \in Blocks(Cur), t \in 1..clock : ApplyTimestamp(b, t)
    \/ \E b \in Blocks(Cur) : \E i \in 0..(Len(getTimeline(Cur, b)) - 1) : ApplyIndex(b, i)
    \/ \E b \in Blocks(Cur), n \in 1..MaxTime, where \in 0..1 : InsertLineAt(b, n, where)
    \/ \E b \in Blocks(Cur), s \in 1..MaxTime, e \in 1..MaxTime : CreateChild(b, s, e)
    \/ \E b \in Blocks(Cur) : CloneOutdatedHeads(b)

Spec == Init /\ [][Next]_vars

\* The edit engine on the root block
NextEdit ==
    \/ CreateRootBlock
    \/ \E b \in Blocks(Cur) : \E n \in 1..getActiveLineCount(Cur, b) : UpdateLine(b, n)
    \/ \E b \in Blocks(Cur), t \in 1..clock : ApplyTimestamp(b, t)
    \/ \E b \in Blocks(Cur), n \in 1..MaxTime, where \in 0..1 : InsertLineAt(b, n, where)
    \/ \E b \in Blocks(Cur) : CloneOutdatedHeads(b)
    \/ \E b \in Blocks(Cur) : ChangeLines(b)

SpecEdit == Init /\ [][NextEdit]_vars

\* Tags on the root block
NextTags ==
    \/ CreateRootBlock
    \/ \E b \in Blocks(Cur) : \E n \in 1..getActiveLineCount(Cur, b) : UpdateLine(b, n)
    \/ \E b \in Blocks(Cur) : \E i \in 0..(Len(getTimeline(Cur, b)) - 1) : ApplyIndex(b, i)
    \/ \E b \in Blocks(Cur), n \in 1..MaxTime, where \in 0..1 : InsertLineAt(b, n, where)
    \/ \E b \in Blocks(Cur) : CreateTag(b)
    \/ \E id \in DOMAIN tags : LoadTag(id)
    \/ \E id \in DOMAIN tags : GetTextForVersion(id)

SpecTags == Init /\ [][NextTags]_vars

\* The block tree: children, clones and deletion, with edits through any block
Live == { b \in Blocks(Cur) : ~blocks[b].isDeleted }

NextTree ==
    \/ CreateRootBlock
    \/ \E b \in Live \cap {1} : \E i \in 0..Min(MaxTreeTime, Len(getTimeline(Cur, b)) - 1) : ApplyIndex(b, i)
    \/ \E b \in Live, n \in 1..MaxTime, where \in 0..1 : clock < MaxTreeTime /\ InsertLineAt(b, n, where)
    \/ \E b \in Live : clock < MaxTreeTime /\ ChangeLinesOf(b, {<<Eol>>})
    \/ \E b \in Live, s \in 1..MaxTime, e \in 1..MaxTime : CreateChildUpTo(b, s, e, MaxTreeBlocks)
    \/ \E b \in Live : Copy(b, MaxTreeBlocks)
    \/ \E b \in Live : DeleteBlock(b)

SpecTree == Init /\ [][NextTree]_vars

\* Calls with any line number and any index, valid or not, on the root
NextCalls ==
    \/ CreateRootBlock
    \/ \E b \in Blocks(Cur) : \E n \in 0..(getActiveLineCount(Cur, b) + 1) : UpdateLine(b, n)
    \/ \E b \in Blocks(Cur) : \E i \in (-1)..Len(getTimeline(Cur, b)) : ApplyIndex(b, i)
    \/ \E b \in Blocks(Cur), n \in 1..MaxTime, where \in 0..1 : InsertLineAt(b, n, where)

SpecCalls == Init /\ [][NextCalls]_vars

\* Edits of the root that break lines, and scrubbing
NextBreaks ==
    \/ CreateRootBlock
    \/ \E b \in Blocks(Cur) : ChangeLinesOf(b, BreakingTexts)
    \/ \E b \in Blocks(Cur) : \E i \in 0..(Len(getTimeline(Cur, b)) - 1) : ApplyIndex(b, i)

SpecBreaks == Init /\ [][NextBreaks]_vars

\* Interleaved change_lines calls on the root
NextInterleaved ==
    \/ CreateRootBlock
    \/ \E b \in Blocks(Cur) : \E change \in Changes(Cur, b, InsertedTexts) : ReadHeads(b, change, 0)
    \/ \E i \in DOMAIN pending : Transact(i)
    \/ \E i \in DOMAIN pending : InsertRemaining(i)

SpecInterleaved == Init /\ [][NextInterleaved]_vars

\* createChild as its awaits cut it: the call reads the lines of the range
\* and asks for an overlapping child (592-600), and creates the child from
\* what it read once the answer is in (602-607); other calls run in between.
FindOverlappingChild(b, startLine, endLine) ==
    /\ Len(pending) < MaxCalls
    /\ startLine <= endLine
    /\ inRange(Cur, b, startLine, endLine)
    /\ pending' = Append(pending,
            [b |-> b, startLine |-> startLine, endLine |-> endLine,
             linesInRange |-> getLinesInRange(Cur, b, startLine, endLine),
             overlappingChild |-> overlappingChild(Cur, b, getLinesInRange(Cur, b, startLine, endLine)),
             phase |-> "queried"])
    /\ UNCHANGED <<order, versions, blocks, cache, clock, tags>>
    /\ Done("createChild.findFirst", b, <<startLine, endLine>>)

InlineCopyQueried(i) ==
    /\ pending[i].phase = "queried"
    /\ Len(blocks) < MaxTreeBlocks
    /\ LET c       == pending[i]
           creates == ~c.overlappingChild /\ Timestamp(Cur, c.b) # NoTimestamp
       IN  /\ Install(IF creates THEN inlineCopy(Cur, c.b, c.linesInRange) ELSE Cur)
           /\ last' = [op |-> "createChild", b |-> c.b, args |-> <<c.startLine, c.endLine>>,
                       ok |-> creates, ret |-> <<>>]
    /\ pending' = [pending EXCEPT ![i].phase = "done"]
    /\ UNCHANGED tags

NextRace ==
    \/ CreateRootBlock
    \/ \E b \in Blocks(Cur) : \E n \in 1..getActiveLineCount(Cur, b) : UpdateLine(b, n)
    \/ \E b \in Blocks(Cur), s \in 1..MaxTime, e \in 1..MaxTime : FindOverlappingChild(b, s, e)
    \/ \E i \in DOMAIN pending : InlineCopyQueried(i)

SpecRace == Init /\ [][NextRace]_vars

\* Edits on a block, its children and its clones
NextClones ==
    \/ CreateRootBlock
    \/ \E b \in Live : \E n \in 1..getActiveLineCount(Cur, b) : UpdateLine(b, n)
    \/ \E b \in Live, s \in 1..MaxTime, e \in 1..MaxTime : CreateChildUpTo(b, s, e, MaxTreeBlocks)
    \/ \E b \in Live : Copy(b, MaxTreeBlocks)

SpecClones == Init /\ [][NextClones]_vars

\* Scrubbing to any timestamp a caller may pass, between edits
NextScrub ==
    \/ CreateRootBlock
    \/ \E b \in Blocks(Cur) : \E n \in 1..getActiveLineCount(Cur, b) : UpdateLine(b, n)
    \/ \E b \in Blocks(Cur), t \in 0..clock : ApplyTimestamp(b, t)
    \/ \E b \in Blocks(Cur) : \E i \in 0..(Len(getTimeline(Cur, b)) - 1) : ApplyIndex(b, i)
    \/ \E b \in Blocks(Cur) : Copy(b, MaxBlocks)

SpecScrub == Init /\ [][NextScrub]_vars

-----------------------------------------------------------------------------
(* Properties *)

\* C1: for every Line the timestamps of its Versions are strictly increasing
\* in the order the Versions were appended, after any sequence of load_file,
\* change_lines, insert_line_at, update_line and cloneOutdatedHeads.
C1_StrictlyIncreasing ==
    \A l \in Lines(Cur) : \A i, j \in DOMAIN versions[l] :
        i < j => versions[l][i].timestamp < versions[l][j].timestamp

\* a line that was imported, cloned and then changed by change_lines
C1_Witness ==
    /\ last.op = "changeLines"
    /\ \E l \in Lines(Cur) :
        /\ Len(versions[l]) >= 3
        /\ \E i \in DOMAIN versions[l] : versions[l][i].type = "CLONE"
        /\ versions[l][Len(versions[l])].type \in {"CHANGE", "DELETION"}

\* head_at(t) of a line: the last version stamped at or before t, the earliest
\* version of the line when there is none.
HeadAt(st, l, t) ==
    LET born == { i \in DOMAIN st.versions[l] : Lte(Version(st, l, i).timestamp, t) }
    IN  IF born # {} THEN MaxIdx(st, l, born) ELSE MinIdx(st, l, DOMAIN st.versions[l])

\* the blocks of the subtree of b, parents before their children
RECURSIVE Subtree(_, _)
RECURSIVE Subtrees(_, _)
Subtree(st, b) == <<b>> \o Subtrees(st, getChildren(st, b))
Subtrees(st, children) ==
    IF children = <<>> THEN <<>>
    ELSE Subtree(st, Head(children)) \o Subtrees(st, Tail(children))

\* the block whose timestamp decides the head of line l in the text of b
RenderingBlock(st, b, l) ==
    LET claiming == SelectSeq(Subtree(st, b), LAMBDA c : l \in st.blocks[c].lines)
    IN  claiming[Len(claiming)]

\* the text of b when every line shows its head at the timestamp of block At(l)
TextWith(st, b, At(_)) ==
    LET ls == SelectSeq(getLines(st, b), LAMBDA l :
                  Version(st, l, HeadAt(st, l, Timestamp(st, At(l)))).isActive)
    IN  Join([ i \in 1..Len(ls) |->
                 Version(st, ls[i], HeadAt(st, ls[i], Timestamp(st, At(ls[i])))).content ])

OwnText(st, b) == LET At(l) == b IN TextWith(st, b, At)
RenderedText(st, b) == LET At(l) == RenderingBlock(st, b, l) IN TextWith(st, b, At)

LatestText(st, b) ==
    LET latest(l) == MaxIdx(st, l, DOMAIN st.versions[l])
        ls == SelectSeq(getLines(st, b), LAMBDA l : Version(st, l, latest(l)).isActive)
    IN  Join([ i \in 1..Len(ls) |-> Version(st, ls[i], latest(ls[i])).content ])

ScrubsChild == last'.op = "applyIndex" /\ blocks[last'.b].type = "INLINE"

OthersKeepTimestamp ==
    \A c \in Blocks(Cur) \ {last'.b} :
        blocks'[c].timestamp = blocks[c].timestamp /\ cache'[c] = cache[c]

Rendered(st, r, l) == getVersionsForText(st, r, {}, <<>>)[l]

EditsOf(st, b) == { v \in VersionsOf(st, b) : TypeOf(st, v) # "IMPORTED" }

\* every line of b was imported and has since only been changed by update_line
UpdatesOnly(st, b) ==
    /\ \A l \in st.blocks[b].lines : Version(st, l, 1).type = "IMPORTED"
    /\ \A v \in EditsOf(st, b) : TypeOf(st, v) = "CHANGE"

\* the text of b's lines as of timestamp t
TextAt(st, b, t) ==
    LET ls == SelectSeq(getLines(st, b), LAMBDA l : Version(st, l, HeadAt(st, l, t)).isActive)
    IN  Join([ i \in 1..Len(ls) |-> Version(st, ls[i], HeadAt(st, ls[i], t)).content ])

\* C3: a block whose lines were imported and then changed by k update_line
\* edits has a timeline of exactly k + 1 entries; apply_index(0) makes get_text
\* return the imported text and apply_index(i), 1 <= i <= k, the text as it
\* was right after the i-th edit.
C3_OneEntryPerEdit ==
    \A b \in Blocks(Cur) : UpdatesOnly(Cur, b) =>
        LET edits == sortByTimestamp(Cur, EditsOf(Cur, b))
            k     == Len(edits)
        IN  /\ Len(getTimeline(Cur, b)) = k + 1
            /\ getText(applyIndex(Cur, b, 0), b, {}) = TextAt(Cur, b, getLastImportedVersion(Cur, b))
            /\ \A i \in 1..k :
                getText(applyIndex(Cur, b, i), b, {}) = TextAt(Cur, b, TimestampOf(Cur, edits[i]))

\* C4: apply_index with the index reported as current_version_index leaves
\* the block's timestamp, its heads and its text unchanged.
C4_CurrentIndexIsNoOp ==
    [][(last'.op = "applyIndex" /\ last'.args[1] = currentVersionIndex(Cur, last'.b)) =>
        /\ blocks'[last'.b].timestamp = blocks[last'.b].timestamp
        /\ getHeads(Cur', last'.b) = getHeads(Cur, last'.b)
        /\ getText(Cur', last'.b, {}) = getText(Cur, last'.b, {})]_vars

\* the line is shown by get_text(b)
Visible(st, b, l) ==
    Version(st, l, getVersionsForText(st, b, {}, <<>>)[l]).isActive

\* C10: after insert_line_at on block B, applying a timeline index that lies
\* before the insertion hides the inserted line (its head is the inactive
\* PRE_INSERTION version), and applying the index that was current right
\* after the insertion then shows the line again with its inserted content.
C10_HideAndShowAgain ==
    last.op = "insertLineAt" =>
        LET b       == last.b
            l       == Len(versions)
            current == currentVersionIndex(Cur, b)
            before  == { j \in 0..(Len(getTimeline(Cur, b)) - 1) :
                           TimestampOf(Cur, getTimeline(Cur, b)[j + 1]) < versions[l][1].timestamp }
        IN  \A j \in before :
                LET back  == applyIndex(Cur, b, j)
                    again == applyIndex(back, b, current)
                IN  /\ ~Visible(back, b, l)
                    /\ Version(back, l, getHeads(back, b)[l]).type = "PRE_INSERTION"
                    /\ Visible(again, b, l)
                    /\ Version(again, l, getHeads(again, b)[l]).content = versions[l][2].content

\* the lines get_text(b) joins
TextLines(st, b) ==
    LET vs == getVersionsForText(st, b, {}, <<>>)
        ls == SelectSeq(getLines(st, b), LAMBDA l : Version(st, l, vs[l]).isActive)
    IN  Contents(st, ls, vs)

\* C9: insert_line_at(n, content), 1 <= n <= active_count + 1, advances the
\* block's timestamp, and afterwards get_text has content as its n-th line,
\* the lines 1..n-1 unchanged before it and the former lines n.. after it.
C9_InsertedAtN ==
    [][last'.op = "insertLineAt" =>
        /\ blocks'[last'.b].timestamp > blocks[last'.b].timestamp
        /\ TextLines(Cur', last'.b) =
             InsertAfter(TextLines(Cur, last'.b), last'.args[1] - 1, NewContent(clock'))]_vars

\* C8: after change_lines(B, change) whose lineText splits into m lines that
\* replace the k active lines of the modified range, get_active_line_count(B)
\* is the previous active count - k + m.
C8_ActiveLineCount ==
    last.op = "changeLines" =>
        getActiveLineCount(Cur, last.b) = last.args[3] - last.args[1] + last.args[2]

\* C5: a Tag created on block B captures B.timestamp, so that after any later
\* edits and apply_index calls load_tag(T) returns exactly the text B showed
\* when T was created, also when B was scrubbed to a past index at that time.
C5_TagRoundTrip ==
    last.op = "loadTag" => last.ret = tags[last.args[1]].code

\* C6: get_text_for_version(tag_id) is a peek: the block's timestamp, its
\* heads, the tag map and get_text are afterwards what they were before.
C6_PeekLeavesState ==
    [][last'.op = "getTextForVersion" =>
        /\ blocks'[last'.b].timestamp = blocks[last'.b].timestamp
        /\ getHeads(Cur', last'.b) = getHeads(Cur, last'.b)
        /\ tags' = tags
        /\ getText(Cur', last'.b, {}) = getText(Cur, last'.b, {})]_vars

-----------------------------------------------------------------------------
(* The snap rules of apply_index *)

NoVersion == <<0, 0>>

\* version.isHeadOf(block)
isHeadOf(st, b, v) == v # NoVersion /\ getHeads(st, b)[v[1]] = v[2]

\* version.next: the version appended to the same line after v
nextOf(st, v) == <<v[1], v[2] + 1>>

\* version.insertionState(block): a PRE_INSERTION version is engaged while it
\* is the head of its line (the line is hidden), released once a later
\* version of the line is the head (the line is visible)
PreInsertionEngaged(st, b, v) ==
    v # NoVersion /\ TypeOf(st, v) = "PRE_INSERTION" /\ isHeadOf(st, b, v)
PreInsertionReleased(st, b, v) ==
    /\ v # NoVersion /\ TypeOf(st, v) = "PRE_INSERTION"
    /\ getHeads(st, b)[v[1]] > v[2]

\* The version the four snap rules choose for targetIndex (counted from 0)
snapVersion(st, b, targetIndex) ==
    LET timeline        == getTimeline(st, b)
        selectedVersion == timeline[targetIndex + 1]
        previousVersion == IF targetIndex - 1 >= 0 THEN timeline[targetIndex] ELSE NoVersion
        nextVersion     == IF targetIndex + 1 < Len(timeline) THEN timeline[targetIndex + 2] ELSE NoVersion
        latestVersion   == timeline[currentVersionIndex(st, b) + 1]
    IN  IF previousVersion = latestVersion /\ PreInsertionEngaged(st, b, previousVersion)
        THEN nextOf(st, previousVersion)
        ELSE IF nextVersion = latestVersion /\ PreInsertionReleased(st, b, nextVersion)
        THEN nextVersion
        ELSE IF /\ TypeOf(st, selectedVersion) = "PRE_INSERTION"
                /\ (isHeadOf(st, b, selectedVersion) \/ isHeadOf(st, b, nextVersion))
        THEN nextOf(st, selectedVersion)
        ELSE selectedVersion

\* C11: apply_index(i) applies the timestamp of the version the four snap
\* rules choose (prev.next, next, sel.next or sel), for every timeline and
\* every index, in BlockProxy as in the other implementations.
C11_SnapRules ==
    \A b \in Blocks(Cur) : \A i \in 0..(Len(getTimeline(Cur, b)) - 1) :
        hasCurrentVersion(Cur, b) =>
            Timestamp(applyIndex(Cur, b, i), b) = TimestampOf(Cur, snapVersion(Cur, b, i))

\* the line of block b next to which insert_line_at(lineNumber) inserts, and
\* whose claiming blocks receive the new line
referenceLine(st, b, lineNumber) ==
    LET own == getLines(st, b) IN
    IF lineNumber = 1 THEN own[1]
    ELSE IF lineNumber = getActiveLineCount(st, b) + 1 THEN own[Len(own)]
    ELSE getActiveLines(st, b)[lineNumber - 1]

\* the head of line l in block c
HeadIn(st, c, l) == Version(st, l, getHeads(st, c)[l])

\* C12: when block B inserts a new line next to a neighbouring line L, the new
\* line is claimed by exactly the blocks that claim L; right afterwards its
\* head is the active INSERTION version in B and the inactive PRE_INSERTION
\* version in every other block claiming it.
C12_HiddenInOtherBlocks ==
    [][last'.op = "insertLineAt" =>
        LET b == last'.b
            l == Len(versions')
            L == referenceLine(Cur, b, last'.args[1])
        IN  /\ getBlocks(Cur', l) = getBlocks(Cur, L)
            /\ b \in getBlocks(Cur', l)
            /\ HeadIn(Cur', b, l).type = "INSERTION" /\ HeadIn(Cur', b, l).isActive
            /\ \A c \in getBlocks(Cur', l) \ {b} :
                HeadIn(Cur', c, l).type = "PRE_INSERTION" /\ ~HeadIn(Cur', c, l).isActive]_vars

\* the timeline as documented: the latest IMPORTED version, then every version
\* that is neither IMPORTED nor CLONE, by ascending timestamp
DocumentedTimeline(st, b) ==
    LET imported == sortByTimestamp(st, importedVersions(st, b))
        edits    == sortByTimestamp(st, { v \in VersionsOf(st, b) :
                        TypeOf(st, v) \notin {"IMPORTED", "CLONE"} })
    IN  (IF imported = <<>> THEN <<>> ELSE <<imported[Len(imported)]>>) \o edits

\* C13: every line claimed by an INLINE block is also claimed by the parent of
\* that block, whatever sequence of create_child, insert_line_at, change_lines,
\* copy and delete led to the state.
C13_ChildLinesInParent ==
    \A c \in Blocks(Cur) :
        (blocks[c].type = "INLINE" /\ blocks[c].parent # NoBlock) =>
            blocks[c].lines \subseteq blocks[blocks[c].parent].lines

\* a line inserted through an INLINE block is claimed by that block
C13_Witness ==
    /\ last.op \in {"insertLineAt", "changeLines"}
    /\ last.b \in Blocks(Cur)
    /\ blocks[last.b].type = "INLINE"
    /\ blocks[last.b].parent # NoBlock
    /\ \E l \in blocks[last.b].lines : versions[l][1].type = "PRE_INSERTION"

\* the INLINE children of one parent, pairwise
Siblings(st) ==
    { p \in Blocks(st) \X Blocks(st) :
        /\ p[1] # p[2]
        /\ st.blocks[p[1]].type = "INLINE" /\ st.blocks[p[2]].type = "INLINE"
        /\ st.blocks[p[1]].parent # NoBlock
        /\ st.blocks[p[1]].parent = st.blocks[p[2]].parent }

\* C14: create_child on a range of which some line is already claimed by an
\* INLINE child of the block returns null and changes no block, line or
\* version; and no two INLINE children of one parent claim a common line.
C14_OverlapRejected ==
    [][/\ (/\ last'.op = "createChild"
            /\ overlappingChild(Cur, last'.b,
                    getLinesInRange(Cur, last'.b, last'.args[1], last'.args[2])))
           => (~last'.ok /\ Cur' = Cur)
       /\ \A p \in Siblings(Cur') : blocks'[p[1]].lines \cap blocks'[p[2]].lines = {}]_vars

\* a create_child rejected for overlap while the parent has two INLINE children
C14_Witness ==
    /\ last.op = "createChild"
    /\ ~last.ok
    /\ overlappingChild(Cur, last.b, getLinesInRange(Cur, last.b, last.args[1], last.args[2]))
    /\ \E p \in Siblings(Cur) : blocks[p[1]].parent = last.b

\* C15: apply_index(i) with i < 0 or i >= the length of the timeline, and
\* update_line(n) with n < 1 or n > the number of active lines, report an
\* error and leave blocks, lines, versions and tags as they were.
C15_OutOfRangeRejected ==
    [][LET b == last'.b
           a == last'.args[1]
       IN  (\/ /\ last'.op = "applyIndex"
               /\ (a < 0 \/ a >= Len(DocumentedTimeline(Cur, b)))
            \/ /\ last'.op = "updateLine"
               /\ (a < 1 \/ a > getActiveLineCount(Cur, b)))
           => (~last'.ok /\ Cur' = Cur /\ tags' = tags)]_vars

\* what the store keeps: the lines in file order, the versions and the block rows
Persisted(st) == [order |-> st.order, versions |-> st.versions, blocks |-> st.blocks]

\* C16: all writes of one change_lines call commit as one atomic batch: the
\* store never holds some of them without the others, so what the call has
\* committed by the end of its transaction is either nothing or everything.
C16_OneAtomicBatch ==
    \A b \in Blocks(Cur) : \A change \in Changes(Cur, b, BreakingTexts) : \A where \in 0..1 :
        Persisted(changeLinesTransaction(Cur, b, change))
            \in { Persisted(Cur), Persisted(changeLines(Cur, b, change, where)) }

\* a call run alone: it fails on a start line that is not among the active ones
serialCall(st, c) ==
    IF c.change.startLineNumber \in 1..Len(activeHeads(st, c.b))
    THEN changeLines(st, c.b, c.change, c.where)
    ELSE st

\* the calls in the order of their commits
InCommitOrder == [ k \in 1..Len(pending) |-> CHOOSE i \in DOMAIN pending : pending[i].commit = k ]

RECURSIVE serialRun(_, _)
serialRun(st, calls) ==
    IF calls = <<>> THEN st
    ELSE serialRun(serialCall(st, pending[Head(calls)]), Tail(calls))

AllDone == pending # <<>> /\ \A i \in DOMAIN pending : pending[i].phase = "done"

\* C17: interleaved change_lines calls on blocks sharing lines leave what
\* running them one after the other in the order of their commits leaves; all
\* versions of a call that commits later carry larger timestamps than all
\* versions of a call that commits earlier; and the versions of every line
\* are stored with increasing timestamps.
C17_SerializedInCommitOrder ==
    /\ AllDone =>
        /\ LatestText(Cur, 1) = LatestText(serialRun(pending[1].base, InCommitOrder), 1)
        /\ \A i, j \in DOMAIN pending :
            pending[i].commit < pending[j].commit =>
                \A t \in pending[i].stamps, u \in pending[j].stamps : t < u
    /\ \A l \in Lines(Cur) : \A i, j \in DOMAIN versions[l] :
        i < j => versions[l][i].timestamp < versions[l][j].timestamp

\* C18: a stored version is never changed and never deleted: every version of
\* every line is, after every operation (root-block creation, copy,
\* cloneOutdatedHeads and block deletion included), still stored with the same
\* line, timestamp, content, activity, kind, origin and source block.
C18_VersionsImmutable ==
    [][\A l \in DOMAIN versions : \A i \in DOMAIN versions[l] :
        /\ l \in DOMAIN versions'
        /\ i \in DOMAIN versions'[l]
        /\ versions'[l][i] = versions[l][i]]_vars

\* all versions of the file
AllVersions(st) == UNION { { <<l, i>> : i \in DOMAIN st.versions[l] } : l \in Lines(st) }

\* C19: no two versions of the file, on the same line or on different lines,
\* carry the same timestamp.
C19_UniqueTimestamps ==
    \A v, w \in AllVersions(Cur) : v # w => TimestampOf(Cur, v) # TimestampOf(Cur, w)

\* C20: the timeline of every block is exactly one IMPORTED version, the
\* latest imported one, followed by all versions of the claimed lines that are
\* neither IMPORTED nor CLONE, by ascending timestamp; for a file imported
\* with two lines and never edited it has length 1.
C20_OneImportedAnchor ==
    \A b \in Blocks(Cur) : getTimeline(Cur, b) = DocumentedTimeline(Cur, b)

\* the PRE_INSERTION version an INSERTION version is paired with
pairedPreInsertion(st, v) == <<v[1], v[2] - 1>>

\* C21: the current_version_index reported for a block lies within the
\* timeline, and the timeline entry at that index is the current version of
\* the block, or the PRE_INSERTION entry paired with it when the current
\* version is an INSERTION.
C21_IndexPointsAtCurrentVersion ==
    \A b \in Blocks(Cur) :
        hasCurrentVersion(Cur, b) =>
            LET timeline == getTimeline(Cur, b)
                index    == currentVersionIndex(Cur, b)
                current  == getCurrentVersion(Cur, b)
            IN  /\ 0 <= index /\ index < Len(timeline)
                /\ \/ timeline[index + 1] = current
                   \/ /\ TypeOf(Cur, current) = "INSERTION"
                      /\ timeline[index + 1] = pairedPreInsertion(Cur, current)

\* the heads of block b that are not PRE_INSERTION versions
VisibleHeads(st, b) ==
    { v \in { <<l, getHeads(st, b)[l]>> : l \in st.blocks[b].lines } :
        TypeOf(st, v) # "PRE_INSERTION" }

\* C22: the current version of a block is, among the heads of its claimed
\* lines at the block's timestamp, one that is not a PRE_INSERTION version
\* and has the maximum timestamp of these, whatever the order of the lines.
C22_CurrentVersionIsLatestHead ==
    \A b \in Blocks(Cur) :
        hasCurrentVersion(Cur, b) =>
            /\ getCurrentVersion(Cur, b) \in VisibleHeads(Cur, b)
            /\ \A v \in VisibleHeads(Cur, b) :
                TimestampOf(Cur, v) <= TimestampOf(Cur, getCurrentVersion(Cur, b))

\* the claimed lines of block b that were imported
ImportedLines(st, b) == { l \in st.blocks[b].lines : Version(st, l, 1).type = "IMPORTED" }

\* C23: the user_version_count of a block is the number of versions on its
\* claimed lines, minus the number of imported lines, plus one if it claims an
\* imported line; it is 1 right after load_file, and every edit step
\* (update_line, insert_line_at) through the block raises it by exactly one.
C23_UserVersionCount ==
    [][/\ \A b \in Blocks(Cur') :
            userVersionCount(Cur', b) =
                Cardinality(VersionsOf(Cur', b)) - Cardinality(ImportedLines(Cur', b))
                    + (IF ImportedLines(Cur', b) # {} THEN 1 ELSE 0)
       /\ last'.op = "createRootBlock" => userVersionCount(Cur', last'.b) = 1
       /\ (last'.op \in {"updateLine", "insertLineAt"} /\ last'.ok) =>
            userVersionCount(Cur', last'.b) = userVersionCount(Cur, last'.b) + 1]_vars

\* head_at(t) of line l: the last version with a timestamp <= t, and the
\* earliest version of the line when there is none
DocumentedHead(st, l, t) ==
    LET born == { i \in DOMAIN st.versions[l] : Version(st, l, i).timestamp <= t }
    IN  IF born # {} THEN <<l, MaxIdx(st, l, born)>> ELSE <<l, MinIdx(st, l, DOMAIN st.versions[l])>>

\* C24: for every block B and every line L it claims, getHeadFor(L) and the
\* entry of L in getHeads() are the same version: the last version of L with
\* a timestamp <= B.timestamp, or the earliest version of L when there is
\* none; it is a version of L.
C24_HeadOfLine ==
    \A b \in Blocks(Cur) : \A l \in blocks[b].lines :
        /\ getHeadFor(Cur, b, l) = DocumentedHead(Cur, l, blocks[b].timestamp)
        /\ <<l, getHeads(Cur, b)[l]>> = DocumentedHead(Cur, l, blocks[b].timestamp)
        /\ getHeadFor(Cur, b, l)[1] = l

\* the timestamps of the versions that st2 holds and st1 does not
WrittenStamps(st1, st2) ==
    { TimestampOf(st2, v) : v \in { w \in AllVersions(st2) :
        w[1] \notin Lines(st1) \/ w[2] > Len(st1.versions[w[1]]) } }

TouchedLines(st1, st2) ==
    { l \in Lines(st2) : l \notin Lines(st1) \/ Len(st2.versions[l]) > Len(st1.versions[l]) }

\* C26: change_lines returns exactly the blocks that claim a line the call
\* updated, deleted or inserted; a change that only inserts lines reports at
\* least the editing block.
C26_AffectedBlocks ==
    [][last'.op = "changeLines" =>
        last'.ret = UNION { getBlocks(Cur', l) : l \in TouchedLines(Cur, Cur') }]_vars

\* the lines of a block that show, in the order of the file
ShownLines(st, b) ==
    SelectSeq(getLines(st, b), LAMBDA l : Version(st, l, getHeads(st, b)[l]).isActive)

\* a set of lines that is one run of the lines the block claims
ContiguousIn(st, b, ls) ==
    \E i \in 1..Len(getLines(st, b)) : \E j \in i..Len(getLines(st, b)) :
        ls = { getLines(st, b)[k] : k \in i..j }

\* C27: create_child(range) without overlap creates an INLINE block under the
\* called block, at the called block's timestamp, claiming one run of the
\* parent's lines whose active lines are the parent's active lines
\* range.start..range.end.
C27_ChildOfRange ==
    [][(/\ last'.op = "createChild"
        /\ ~overlappingChild(Cur, last'.b,
               getLinesInRange(Cur, last'.b, last'.args[1], last'.args[2]))) =>
        LET parent == last'.b
            child  == Len(blocks')
        IN  /\ Len(blocks') = Len(blocks) + 1
            /\ blocks'[child].type = "INLINE"
            /\ blocks'[child].parent = parent
            /\ blocks'[child].timestamp = blocks[parent].timestamp
            /\ ContiguousIn(Cur, parent, blocks'[child].lines)
            /\ ShownLines(Cur', child) =
                   SubSeq(ShownLines(Cur, parent), last'.args[1], last'.args[2])]_vars

\* the latest timestamp among the heads of the lines of a block at its timestamp
LatestHeadTimestamp(st, b) ==
    LET stamps == { Version(st, l, DocumentedHead(st, l, st.blocks[b].timestamp)[2]).timestamp :
                      l \in st.blocks[b].lines }
    IN  CHOOSE t \in stamps : \A u \in stamps : u <= t

\* C28: copy() on block B creates a CLONE block with origin B that claims the
\* lines B claims, at the latest timestamp among B's current heads; the
\* in-memory Block.copy() returns a clone with origin B as well.
C28_CloneOfBlock ==
    [][last'.op = "copy" =>
        LET clone == Len(blocks')
        IN  /\ Len(blocks') = Len(blocks) + 1
            /\ blocks'[clone].type = "CLONE"
            /\ blocks'[clone].origin = last'.b
            /\ blocks'[clone].lines = blocks[last'.b].lines
            /\ blocks'[clone].timestamp = LatestHeadTimestamp(Cur, last'.b)
            /\ BlockCopy(Cur, last'.b).origin = last'.b]_vars

\* a block and the blocks below it
RECURSIVE RenderedBlocks(_, _)
RenderedBlocks(st, b) ==
    {b} \cup UNION { RenderedBlocks(st, getChildren(st, b)[i]) : i \in 1..Len(getChildren(st, b)) }

RECURSIVE DepthOf(_, _)
DepthOf(st, b) == IF st.blocks[b].parent = NoBlock THEN 0 ELSE 1 + DepthOf(st, st.blocks[b].parent)

\* the rendered blocks that claim line l and have no rendered block claiming l below them
Innermost(st, b, l) ==
    LET claiming == { x \in RenderedBlocks(st, b) : l \in st.blocks[x].lines }
    IN  { x \in claiming : \A y \in claiming : DepthOf(st, y) <= DepthOf(st, x) }

\* the blocks whose heads stand for block x: its clones in the set (and theirs), or x itself
RECURSIVE StandIns(_, _, _)
StandIns(st, x, clonesToConsider) ==
    LET clones == { c \in clonesToConsider : st.blocks[c].origin = x }
    IN  IF clones = {} THEN {x}
        ELSE UNION { StandIns(st, c, clonesToConsider) : c \in clones }

Clones(st) == { c \in Blocks(st) : st.blocks[c].type = "CLONE" /\ ~st.blocks[c].isDeleted }

\* C29: get_text(B, clones_to_consider) takes, for every line of a rendered
\* block (B or a descendant) that has a clone in the set, the head of the clone,
\* and the block's own head where it has no clone in the set; with the empty
\* set this is get_text(B).
C29_ClonesOverrideHeads ==
    \A b \in Live : \A clonesToConsider \in SUBSET Clones(Cur) :
        LET vs == getVersionsForText(Cur, b, clonesToConsider, <<>>)
        IN  \A l \in blocks[b].lines :
                /\ l \in DOMAIN vs
                /\ \E x \in Innermost(Cur, b, l) : \E s \in StandIns(Cur, x, clonesToConsider) :
                       /\ l \in blocks[s].lines
                       /\ vs[l] = getHeads(Cur, s)[l]

ImportedStamps(st, b) ==
    UNION { { Version(st, l, i).timestamp :
                i \in { j \in DOMAIN st.versions[l] : Version(st, l, j).type = "IMPORTED" } } :
            l \in st.blocks[b].lines }

\* C32: the timestamp of a block that claims an imported line is never below
\* the earliest IMPORTED timestamp among its lines.
C32_TimestampNotBeforeImport ==
    \A b \in Blocks(Cur) : \A t \in ImportedStamps(Cur, b) :
        \E u \in ImportedStamps(Cur, b) : u <= t /\ u <= blocks[b].timestamp

\* C33: apply_timestamp(t) and apply_index(i) on block B change the timestamp
\* of B and nothing else: no version and no line is created, changed or
\* removed, no block's claimed lines change, no other block's timestamp changes.
C33_ScrubbingChangesOnlyTimestamp ==
    [][last'.op \in {"applyTimestamp", "applyIndex"} =>
        /\ versions' = versions
        /\ order' = order
        /\ Len(blocks') = Len(blocks)
        /\ \A c \in Blocks(Cur) :
              IF c = last'.b
              THEN blocks'[c] = [blocks[c] EXCEPT !.timestamp = blocks'[c].timestamp]
              ELSE blocks'[c] = blocks[c] /\ cache'[c] = cache[c]]_vars

C33_Witness ==
    /\ last.op \in {"applyTimestamp", "applyIndex"}
    /\ Len(blocks) = 2
    /\ blocks[1].timestamp # blocks[2].timestamp
    /\ \E l \in Lines(Cur) : Len(versions[l]) > 1

\* the versions of line l that st2 holds and st1 does not
NewVersions(st1, st2, l) == SubSeq(st2.versions[l], Len(st1.versions[l]) + 1, Len(st2.versions[l]))

\* the active lines of the block that lie in the adjusted modified range
LinesInModifiedRange(st, b, change) ==
    LET range == modifiedRange(st, b, change)
    IN  SelectSeq([ i \in 1..Len(activeHeads(st, b)) |-> i ],
                  LAMBDA i : range.startLine <= i /\ i <= range.endLine)

\* C34: with k active lines in the adjusted modified range and m lines in the
\* adjusted lineText, change_lines writes a CHANGE version with its new
\* content on each of the first min(k, m) lines, a DELETION version on each of
\* the last max(0, k - m) lines, max(0, m - k) new lines and nothing else; a
\* one-line insert-only change that pushes the start line has k = 0.
C34_VersionsPerChange ==
    \A b \in Blocks(Cur) : \A change \in Changes(Cur, b, InsertedTexts \cup BreakingTexts) :
      \A where \in 0..1 :
        LET st2    == changeLines(Cur, b, change, where)
            active == activeHeads(Cur, b)
            inside == LinesInModifiedRange(Cur, b, change)
            k      == Len(inside)
            lines  == modifiedLines(Cur, b, change)
            m      == Len(lines)
        IN  /\ \A j \in 1..k :
                  LET written == NewVersions(Cur, st2, active[inside[j]])
                  IN  /\ Len(written) = 1
                      /\ IF j <= m
                         THEN written[1].type = "CHANGE" /\ written[1].content = lines[j]
                         ELSE written[1].type = "DELETION"
            /\ \A l \in Lines(Cur) :
                  (\A j \in 1..k : active[inside[j]] # l) => NewVersions(Cur, st2, l) = <<>>
            /\ Cardinality(Lines(st2) \ Lines(Cur)) = Max(0, m - k)
            /\ noModifications(Cur, b, change) => k = 0

C34_Witness ==
    /\ last.op = "changeLines"
    /\ \E l \in Lines(Cur) : \E i \in DOMAIN versions[l] : versions[l][i].type = "CHANGE"
    /\ \E l \in Lines(Cur) : \E i \in DOMAIN versions[l] : versions[l][i].type = "INSERTION"

\* C35: no two existing blocks of the file have the same blockId, whatever
\* create_child, copy and delete_block calls created and removed them.
C35_UniqueBlockIds ==
    \A b \in Live : \A c \in Live : b # c => blocks[b].blockId # blocks[c].blockId

\* C36: create_child calls on one parent that run concurrently never leave
\* two sibling INLINE blocks that claim a common line: of two calls with
\* overlapping ranges at most one creates a child.
C36_NoOverlapUnderConcurrency ==
    \A p \in Siblings(Cur) : blocks[p[1]].lines \cap blocks[p[2]].lines = {}

\* some line of the block holds a version later than the block's timestamp
ScrubbedToPast(st, b) ==
    \E l \in st.blocks[b].lines : \E i \in DOMAIN st.versions[l] :
        Version(st, l, i).timestamp > st.blocks[b].timestamp

\* C37: cloneOutdatedHeads on a block B scrubbed to the past leaves
\* get_text(B) as it was, and afterwards no line of B holds a version later
\* than B's timestamp; on a block that is not scrubbed to the past it writes
\* nothing and leaves B's timestamp as it was.
C37_CloneOutdatedHeads ==
    [][last'.op = "cloneOutdatedHeads" =>
        IF ScrubbedToPast(Cur, last'.b)
        THEN /\ getText(Cur', last'.b, {}) = getText(Cur, last'.b, {})
             /\ ~ScrubbedToPast(Cur', last'.b)
        ELSE /\ versions' = versions
             /\ blocks'[last'.b].timestamp = blocks[last'.b].timestamp]_vars

\* C38: the timestamp a block's proxy exposes is the timestamp stored for
\* the block: right after the proxy is loaded, and after every setTimestamp,
\* applyTimestamp and changeLines.
C38_ProxyTimestampIsStored ==
    \A b \in Blocks(Cur) : Timestamp(Cur, b) = blocks[b].timestamp

\* the lines of the text of a block, children considered, in file order
RenderedLines(st, b) ==
    LET vs == getVersionsForText(st, b, {}, <<>>)
    IN  SelectSeq(getLines(st, b), LAMBDA l : Version(st, l, vs[l]).isActive)

\* C39: for every INLINE block C with parent P and an active line, the range
\* as_block_info(C) reports lies within the active lines of P, in order, and
\* the active lines of P with these numbers are the active lines of C, also
\* when C, P and the siblings of C stand at different timestamps.
C39_RangeInParent ==
    \A c \in Live :
        (/\ blocks[c].type = "INLINE"
         /\ blocks[c].parent # NoBlock
         /\ getActiveLineCount(Cur, c) >= 1) =>
            LET range  == rangeInParent(Cur, c)
                inText == RenderedLines(Cur, blocks[c].parent)
            IN  /\ 1 <= range.startLine
                /\ range.startLine <= range.endLine
                /\ range.endLine <= Len(inText)
                /\ SubSeq(inText, range.startLine, range.endLine) = getActiveLines(Cur, c)

\* C40: the three counts of user-visible versions agree after every history
\* of imports, updates, deletions and insertions: the in-memory block, the
\* snapshot data of DBBlock and the block info of BlockProxy return the same
\* number, which is the length of the timeline apply_index accepts.
C40_VersionCountsAgree ==
    \A b \in Blocks(Cur) :
        /\ getUserVersionCount(Cur, b) = snapshotVersionCount(Cur, b)
        /\ snapshotVersionCount(Cur, b) = userVersionCount(Cur, b)
        /\ userVersionCount(Cur, b) = Len(getTimeline(Cur, b))

====
